---- MODULE Spec2Model ----
(***************************************************************************)
(* The posts router (routes/api/posts.js): Create, Get by id, Delete,      *)
(* Like, Unlike, Add comment and Delete comment on the Post collection.    *)
(*                                                                         *)
(* The state is the collection; a response is what a handler yields.       *)
(*                                                                         *)
(* Spec      every request runs to completion before the next starts.     *)
(* SpecConc  Like requests are split at their two awaits (findById, save)  *)
(*           and requests of different callers interleave.                 *)
(***************************************************************************)
EXTENDS Integers, Sequences, FiniteSets, TLC

VARIABLES
    posts,      \* the Post collection: a set of post documents
    nextId,     \* number of ObjectIds generated so far
    pending,    \* SpecConc: per caller, the post a Like handler holds between findById and save
    done        \* SpecConc: per caller, the post id and response of the caller's last Like request

vars == <<posts, nextId, pending, done>>

----------------------------------------------------------------------------
(* Bounds *)

MaxIds == 3          \* ObjectIds generated in one behaviour (posts and comments)
MaxPosts == 2        \* posts stored at the same time
MaxConcPosts == 1    \* posts created in a behaviour of SpecConc

----------------------------------------------------------------------------
(* Identifiers.  An ObjectId is a record holding its hex string; requests   *)
(* carry ids as strings (req.params.id, req.user.id).                       *)

\* the hex strings of the ObjectIds the store generates, in order
OidStr == <<"01", "02", "03", "04", "05", "06", "07", "08">>

\* req.user.id of the authenticated callers (hex strings of their User _id)
Users == {"a1", "a2"}

\* a string that does not cast to an ObjectId
Malformed == "zz"

\* a well-formed hex string that is the _id of no document
Absent == "ff"

HexStrings == {OidStr[n] : n \in 1..Len(OidStr)} \cup Users \cup {Absent}

NULL == [null |-> TRUE]

ObjectId(s) == [hex |-> s]

toString(oid) == oid.hex

\* the User documents (external collection, never written here); every
\* authenticated caller has one
UserDoc(u) == [name |-> <<"name", u>>, avatar |-> <<"avatar", u>>]

\* request bodies: text present, text empty, text missing
Bodies == {[text |-> "hello"], [text |-> ""], [other |-> "x"]}

----------------------------------------------------------------------------
(* Array helpers with JavaScript's semantics (0-based indices). *)

\* Array.prototype.indexOf: first index of x, -1 when absent
indexOf(seq, x) ==
    IF \E i \in 1..Len(seq) : seq[i] = x
    THEN (CHOOSE i \in 1..Len(seq) : seq[i] = x /\ \A j \in 1..(i - 1) : seq[j] # x) - 1
    ELSE -1

\* splice1 with a delete count of 2: splice(start, 2)
splice1_two(seq, start) ==
    LET s0 == IF start < 0 THEN (IF Len(seq) + start < 0 THEN 0 ELSE Len(seq) + start)
              ELSE (IF start > Len(seq) THEN Len(seq) ELSE start)
    IN  IF s0 >= Len(seq) THEN seq
        ELSE SubSeq(seq, 1, s0) \o SubSeq(seq, s0 + 3, Len(seq))

\* Array.prototype.splice(start, 1): a negative start counts from the end
splice1(seq, start) ==
    LET s0 == IF start < 0 THEN (IF Len(seq) + start < 0 THEN 0 ELSE Len(seq) + start)
              ELSE (IF start > Len(seq) THEN Len(seq) ELSE start)
    IN  IF s0 >= Len(seq) THEN seq
        ELSE SubSeq(seq, 1, s0) \o SubSeq(seq, s0 + 2, Len(seq))

\* unshift replaced by push: the entry goes to the end
unshift_push(seq, x) == seq \o <<x>>

\* Array.prototype.unshift
unshift(seq, x) == <<x>> \o seq

----------------------------------------------------------------------------
(* The document store (models/Post over mongoose). *)

isValidObjectId(s) == s \in HexStrings

\* Post.findById: a CastError of kind ObjectId on a malformed id, null when absent
findById(ps, id) ==
    IF ~isValidObjectId(id)
    THEN [throws |-> TRUE, kind |-> "ObjectId", doc |-> NULL]
    ELSE IF \E p \in ps : p._id = ObjectId(id)
         THEN [throws |-> FALSE, kind |-> "", doc |-> CHOOSE p \in ps : p._id = ObjectId(id)]
         ELSE [throws |-> FALSE, kind |-> "", doc |-> NULL]

\* post.save(): the whole document replaces the stored one with the same
\* _id, with no test of the version it was loaded at
save(ps, doc) == {p \in ps : p._id # doc._id} \cup {doc}

\* post.remove()
remove(ps, doc) == {p \in ps : p._id # doc._id}

----------------------------------------------------------------------------
(* Responses. *)

Response(status, msg, body) == [status |-> status, msg |-> msg, errors |-> <<>>, body |-> body]

ValidationFailed(errors) == [status |-> 400, msg |-> "", errors |-> errors, body |-> <<>>]

PostNotFound == Response(400, "Post Not Found", <<>>)

NotAuthorized == Response(401, "User Not Authorized", <<>>)

ServerError == Response(500, "Server Error", <<>>)

\* the catch block without its test of err.kind
catch_noKind(err) == ServerError

\* the catch block shared by every handler that takes a post id
catch(err) == IF err.kind = "ObjectId" THEN PostNotFound ELSE ServerError

\* check('text').exists() in place of .not().isEmpty(): only a missing text fails
validationResult_exists(body) ==
    IF "text" \in DOMAIN body THEN <<>> ELSE <<"Text is required">>

\* check('text', 'Text is required').not().isEmpty() ; validationResult(req)
validationResult(body) ==
    LET text == IF "text" \in DOMAIN body THEN body.text ELSE ""
    IN  IF text = "" THEN <<"Text is required">> ELSE <<>>

\* what a handler yields: the collection, the id counter and the response
Outcome(ps, n, r) == [posts |-> ps, nextId |-> n, res |-> r]

----------------------------------------------------------------------------
(* The handlers, as functions of the collection, the id counter, the        *)
(* caller (req.user.id) and the request's parameters.                       *)

\* POST api/posts
createPost(ps, n, user, body) ==
    LET errors == validationResult(body)
    IN  IF errors # <<>> THEN Outcome(ps, n, ValidationFailed(errors))
        ELSE LET u == UserDoc(user)
                 newPost == [_id |-> ObjectId(OidStr[n + 1]),
                             text |-> body.text,
                             name |-> u.name,
                             avatar |-> u.avatar,
                             user |-> ObjectId(user),
                             likes |-> <<>>,
                             comments |-> <<>>]
             IN  Outcome(save(ps, newPost), n + 1, Response(200, "", <<newPost>>))

\* GET api/posts/:id
getPost(ps, n, user, id) ==
    LET found == findById(ps, id)
    IN  IF found.throws THEN Outcome(ps, n, catch(found))
        ELSE IF found.doc = NULL THEN Outcome(ps, n, PostNotFound)
        ELSE Outcome(ps, n, Response(200, "", <<found.doc>>))

\* deletePost without its Check User block
deletePost_noOwnerCheck(ps, n, user, id) ==
    LET found == findById(ps, id)
    IN  IF found.throws THEN Outcome(ps, n, catch(found))
        ELSE IF found.doc = NULL THEN Outcome(ps, n, PostNotFound)
        ELSE Outcome(remove(ps, found.doc), n, Response(200, "Post Removed", <<>>))

\* DELETE api/posts/:id
deletePost(ps, n, user, id) ==
    LET found == findById(ps, id)
    IN  IF found.throws THEN Outcome(ps, n, catch(found))
        ELSE IF found.doc = NULL THEN Outcome(ps, n, PostNotFound)
        ELSE IF toString(found.doc.user) # user THEN Outcome(ps, n, NotAuthorized)
        ELSE Outcome(remove(ps, found.doc), n, Response(200, "Post Removed", <<>>))

\* .map((entry) => entry.user.toString()) on likes or comments
userStrings(entries) == [i \in 1..Len(entries) |-> toString(entries[i].user)]

\* post.comments.find((comment) => comment.id === comment_id): the first
\* such comment, NULL (undefined) when there is none
findComment(comments, comment_id) ==
    IF \E i \in 1..Len(comments) : toString(comments[i]._id) = comment_id
    THEN comments[CHOOSE i \in 1..Len(comments) :
                      /\ toString(comments[i]._id) = comment_id
                      /\ \A j \in 1..(i - 1) : toString(comments[j]._id) # comment_id]
    ELSE NULL

\* the filter testing post.user in place of like.user
likesOf_postUser(post, user) == SelectSeq(post.likes, LAMBDA like : toString(post.user) = user)

\* post.likes.filter((like) => like.user.toString() === req.user.id)
likesOf(post, user) == SelectSeq(post.likes, LAMBDA like : toString(like.user) = user)

\* PUT api/posts/like/:id up to its save: the response when the handler
\* returns early, else the document it is about to save
likeLoad(ps, user, id) ==
    LET found == findById(ps, id)
    IN  IF found.throws THEN [returned |-> TRUE, res |-> catch(found)]
        ELSE IF found.doc = NULL THEN [returned |-> TRUE, res |-> PostNotFound]
        ELSE IF Len(likesOf(found.doc, user)) > 0
             THEN [returned |-> TRUE, res |-> Response(400, "Post Already Liked", <<>>)]
        ELSE [returned |-> FALSE,
              doc |-> [found.doc EXCEPT !.likes = unshift(@, [user |-> ObjectId(user)])]]

\* likeSave as an update of the stored document: the caller's Like is put in
\* front of the likes stored now, not of the likes the handler loaded
likeSave_merge(ps, n, doc) ==
    LET stored == CHOOSE p \in ps : p._id = doc._id
        merged == [stored EXCEPT !.likes = unshift(@, doc.likes[1])]
    IN  Outcome(save(ps, merged), n, Response(200, "", merged.likes))

\* PUT api/posts/like/:id from its save on
likeSave(ps, n, doc) == Outcome(save(ps, doc), n, Response(200, "", doc.likes))

\* PUT api/posts/like/:id
likePost(ps, n, user, id) ==
    LET loaded == likeLoad(ps, user, id)
    IN  IF loaded.returned THEN Outcome(ps, n, loaded.res)
        ELSE likeSave(ps, n, loaded.doc)

\* unlikePost with indexOf applied to the Like entries, not to their user
\* strings: no entry equals the caller's id string, so removeIndex is -1
unlikePost_rawIndexOf(ps, n, user, id) ==
    LET found == findById(ps, id)
    IN  IF found.throws THEN Outcome(ps, n, catch(found))
        ELSE IF found.doc = NULL THEN Outcome(ps, n, PostNotFound)
        ELSE IF Len(likesOf(found.doc, user)) = 0
             THEN Outcome(ps, n, Response(400, "Post has not yet been liked", <<>>))
        ELSE LET removeIndex == -1
                 doc == [found.doc EXCEPT !.likes = splice1(@, removeIndex)]
             IN  Outcome(save(ps, doc), n, Response(200, "Unlike Post", <<>>))

\* PUT api/posts/unlike/:id
unlikePost(ps, n, user, id) ==
    LET found == findById(ps, id)
    IN  IF found.throws THEN Outcome(ps, n, catch(found))
        ELSE IF found.doc = NULL THEN Outcome(ps, n, PostNotFound)
        ELSE IF Len(likesOf(found.doc, user)) = 0
             THEN Outcome(ps, n, Response(400, "Post has not yet been liked", <<>>))
        ELSE LET removeIndex == indexOf(userStrings(found.doc.likes), user)
                 doc == [found.doc EXCEPT !.likes = splice1(@, removeIndex)]
             IN  Outcome(save(ps, doc), n, Response(200, "Unlike Post", <<>>))

\* POST api/posts/comment/:id
addComment(ps, n, user, id, body) ==
    LET errors == validationResult(body)
        found == findById(ps, id)
    IN  IF errors # <<>> THEN Outcome(ps, n, ValidationFailed(errors))
        ELSE IF found.throws THEN Outcome(ps, n, catch(found))
        ELSE IF found.doc = NULL THEN Outcome(ps, n, PostNotFound)
        ELSE LET u == UserDoc(user)
                 newComment == [_id |-> ObjectId(OidStr[n + 1]),
                                text |-> body.text,
                                name |-> u.name,
                                avatar |-> u.avatar,
                                user |-> ObjectId(user)]
                 doc == [found.doc EXCEPT !.comments = unshift(@, newComment)]
             IN  Outcome(save(ps, doc), n + 1, Response(200, "", doc.comments))

\* deleteComment with Check user testing the post's author, not the comment's
deleteComment_postUser(ps, n, user, id, comment_id) ==
    LET found == findById(ps, id)
    IN  IF found.throws THEN Outcome(ps, n, catch(found))
        ELSE IF found.doc = NULL THEN Outcome(ps, n, PostNotFound)
        ELSE LET comment == findComment(found.doc.comments, comment_id)
             IN  IF comment = NULL
                 THEN Outcome(ps, n, Response(400, "Comment Does Not Exist", <<>>))
                 ELSE IF toString(found.doc.user) # user THEN Outcome(ps, n, NotAuthorized)
                 ELSE LET removeIndex == indexOf(userStrings(found.doc.comments), user)
                          doc == [found.doc EXCEPT !.comments = splice1(@, removeIndex)]
                      IN  Outcome(save(ps, doc), n, Response(200, "Comment Deleted", <<>>))

\* DELETE api/posts/comment/:id/:comment_id
deleteComment(ps, n, user, id, comment_id) ==
    LET found == findById(ps, id)
    IN  IF found.throws THEN Outcome(ps, n, catch(found))
        ELSE IF found.doc = NULL THEN Outcome(ps, n, PostNotFound)
        ELSE LET comment == findComment(found.doc.comments, comment_id)
             IN  IF comment = NULL
                 THEN Outcome(ps, n, Response(400, "Comment Does Not Exist", <<>>))
                 ELSE IF toString(comment.user) # user THEN Outcome(ps, n, NotAuthorized)
                 ELSE LET removeIndex == indexOf(userStrings(found.doc.comments), user)
                          doc == [found.doc EXCEPT !.comments = splice1(@, removeIndex)]
                      IN  Outcome(save(ps, doc), n, Response(200, "Comment Deleted", <<>>))

----------------------------------------------------------------------------
(* Requests.  req.params.id and req.params.comment_id are drawn from the    *)
(* ids of the stored posts and comments, a well-formed id of no document    *)
(* and a malformed id.                                                      *)

PostIdParams(ps) == {toString(p._id) : p \in ps} \cup {Absent, Malformed}

CommentIdParams(ps) ==
    UNION {{toString(p.comments[i]._id) : i \in 1..Len(p.comments)} : p \in ps}
        \cup {Absent, Malformed}

RequestsOf(op, ps) ==
    CASE op = "create" -> [op : {op}, user : Users, body : Bodies]
      [] op \in {"get", "delete", "like", "unlike"} ->
            [op : {op}, user : Users, id : PostIdParams(ps)]
      [] op = "addComment" -> [op : {op}, user : Users, id : PostIdParams(ps), body : Bodies]
      [] op = "deleteComment" ->
            [op : {op}, user : Users, id : PostIdParams(ps), comment_id : CommentIdParams(ps)]

Routes == {"create", "get", "delete", "like", "unlike", "addComment", "deleteComment"}

Requests(ps) == UNION {RequestsOf(op, ps) : op \in Routes}

\* the router: the handler mounted on the request's route
handle(ps, n, r) ==
    CASE r.op = "create" -> createPost(ps, n, r.user, r.body)
      [] r.op = "get" -> getPost(ps, n, r.user, r.id)
      [] r.op = "delete" -> deletePost(ps, n, r.user, r.id)
      [] r.op = "like" -> likePost(ps, n, r.user, r.id)
      [] r.op = "unlike" -> unlikePost(ps, n, r.user, r.id)
      [] r.op = "addComment" -> addComment(ps, n, r.user, r.id, r.body)
      [] r.op = "deleteComment" -> deleteComment(ps, n, r.user, r.id, r.comment_id)

----------------------------------------------------------------------------
(* Spec: one action per route, each a whole request. *)

Init ==
    /\ posts = {}
    /\ nextId = 0
    /\ pending = [u \in Users |-> NULL]
    /\ done = [u \in Users |-> NULL]

\* the model's bounds on what a request may grow
WithinBounds(out) ==
    /\ out.nextId <= MaxIds
    /\ Cardinality(out.posts) <= MaxPosts

\* a request served to completion: its outcome becomes the state
Serve(r) ==
    /\ \E out \in {handle(posts, nextId, r)} :
           /\ WithinBounds(out)
           /\ posts' = out.posts
           /\ nextId' = out.nextId
    /\ UNCHANGED <<pending, done>>

Create ==
    /\ \E r \in RequestsOf("create", posts) :
           \E out \in {handle(posts, nextId, r)} :
               /\ WithinBounds(out)
               /\ posts' = out.posts
               /\ nextId' = out.nextId
    /\ UNCHANGED <<pending, done>>

Get == \E r \in RequestsOf("get", posts) : Serve(r)

Delete == \E r \in RequestsOf("delete", posts) : Serve(r)

Like == \E r \in RequestsOf("like", posts) : Serve(r)

Unlike == \E r \in RequestsOf("unlike", posts) : Serve(r)

AddComment == \E r \in RequestsOf("addComment", posts) : Serve(r)

DeleteComment == \E r \in RequestsOf("deleteComment", posts) : Serve(r)

Next == Create \/ Get \/ Delete \/ Like \/ Unlike \/ AddComment \/ DeleteComment

Spec == Init /\ [][Next]_vars

----------------------------------------------------------------------------
(* Properties of Spec.  Each is stated over the reachable collections and   *)
(* every request that can be made on them.                                  *)

\* whether text is missing from the body or empty
EmptyText(body) == "text" \notin DOMAIN body \/ body.text = ""

\* the stored post whose _id prints as id
PostOf(ps, id) == CHOOSE p \in ps : p._id.hex = id

\* the positions of user's Like entries in a likes sequence
LikePositions(likes, user) == {i \in 1..Len(likes) : likes[i].user.hex = user}

\* seq without its i-th entry
Without(seq, i) == [j \in 1..(Len(seq) - 1) |-> IF j < i THEN seq[j] ELSE seq[j + 1]]

\* the posts other than the one whose _id prints as id
Others(ps, id) == {p \in ps : p._id.hex # id}

\* C1: every stored post's likes sequence holds at most one Like of any user.
C1_OneLikePerUser ==
    \A p \in posts : \A u \in Users : Cardinality(LikePositions(p.likes, u)) <= 1

\* C1 witness: a post liked by every user.
C1_Witness ==
    \E p \in posts : \A u \in Users : Cardinality(LikePositions(p.likes, u)) = 1

\* C2: for a user with no Like on a post, Like then Unlike both succeed and
\* leave the post's likes sequence as it was before the Like.
C2_LikeThenUnlike ==
    \A p \in posts : \A u \in Users :
        LikePositions(p.likes, u) = {} =>
            LET id == p._id.hex
                liked == likePost(posts, nextId, u, id)
                unliked == unlikePost(liked.posts, liked.nextId, u, id)
            IN  /\ liked.res.status = 200
                /\ unliked.res.status = 200
                /\ PostOf(unliked.posts, id).likes = p.likes

\* C2 witness: a post that holds another user's Like and none of u's, on
\* which u's Like and Unlike succeed.
C2_Witness ==
    \E p \in posts : \E u \in Users :
        /\ LikePositions(p.likes, u) = {}
        /\ Len(p.likes) > 0
        /\ likePost(posts, nextId, u, p._id.hex).res.status = 200
        /\ unlikePost(likePost(posts, nextId, u, p._id.hex).posts, nextId, u,
                      p._id.hex).res.status = 200

\* C3: a successful Delete comment removes exactly the comment whose id is
\* comment_id; every other comment stays, in order.
C3_DeletesNamedComment ==
    \A r \in RequestsOf("deleteComment", posts) :
        LET out == handle(posts, nextId, r)
        IN  out.res.status = 200 =>
                PostOf(out.posts, r.id).comments =
                    SelectSeq(PostOf(posts, r.id).comments, LAMBDA c : c._id.hex # r.comment_id)

\* C4: Unlike by a caller with a Like removes exactly that Like and keeps the
\* others in order; by a caller without one it answers 400 and changes nothing.
C4_Unlike ==
    \A p \in posts : \A u \in Users :
        LET out == unlikePost(posts, nextId, u, p._id.hex)
            mine == LikePositions(p.likes, u)
        IN  IF mine # {}
            THEN /\ out.res.status = 200
                 /\ \E i \in mine : PostOf(out.posts, p._id.hex).likes = Without(p.likes, i)
                 /\ LikePositions(PostOf(out.posts, p._id.hex).likes, u) = {}
                 /\ Others(out.posts, p._id.hex) = Others(posts, p._id.hex)
            ELSE /\ out.res.status = 400
                 /\ out.res.msg = "Post has not yet been liked"
                 /\ out.posts = posts

\* C4 witness: the caller's Like is not the first of the post's likes, and
\* the Unlike succeeds.
C4_Witness ==
    \E p \in posts : \E u \in Users :
        /\ Len(p.likes) >= 2
        /\ 1 \notin LikePositions(p.likes, u)
        /\ unlikePost(posts, nextId, u, p._id.hex).res.status = 200

\* C5: Delete by a caller who is not the post's author answers 401 and leaves
\* the collection unchanged; only a Delete by its author removes a post.
C5_DeleteOnlyByAuthor ==
    /\ \A p \in posts : \A u \in Users :
           p.user.hex # u =>
               LET out == deletePost(posts, nextId, u, p._id.hex)
               IN  out.res.status = 401 /\ out.posts = posts
    /\ \A r \in Requests(posts) :
           LET out == handle(posts, nextId, r)
           IN  \A p \in posts :
                   (\A q \in out.posts : q._id # p._id) =>
                       r.op = "delete" /\ r.user = p.user.hex /\ r.id = p._id.hex

\* C5 witness: two posts, one with a like and a comment, whose author is not
\* the caller; the caller's Delete answers 401.
C5_Witness ==
    \E p \in posts : \E u \in Users :
        /\ Cardinality(posts) = 2
        /\ Len(p.likes) > 0 /\ Len(p.comments) > 0
        /\ p.user.hex # u
        /\ deletePost(posts, nextId, u, p._id.hex).res.status = 401

\* C6: Like by a caller who already has a Like answers 400 and changes
\* nothing; otherwise the likes become the caller's Like followed by the
\* previous likes, and that sequence is the response.
C6_Like ==
    \A p \in posts : \A u \in Users :
        LET out == likePost(posts, nextId, u, p._id.hex)
        IN  IF LikePositions(p.likes, u) # {}
            THEN /\ out.res.status = 400
                 /\ out.res.msg = "Post Already Liked"
                 /\ out.posts = posts
            ELSE /\ out.res.status = 200
                 /\ PostOf(out.posts, p._id.hex).likes = <<[user |-> [hex |-> u]]>> \o p.likes
                 /\ out.res.body = <<[user |-> [hex |-> u]]>> \o p.likes
                 /\ Others(out.posts, p._id.hex) = Others(posts, p._id.hex)

\* C6 witness: a post with a Like of u and not of v; u's Like is answered
\* 400, v's 200.
C6_Witness ==
    \E p \in posts : \E u, v \in Users :
        /\ LikePositions(p.likes, u) # {}
        /\ LikePositions(p.likes, v) = {}
        /\ likePost(posts, nextId, u, p._id.hex).res.status = 400
        /\ likePost(posts, nextId, v, p._id.hex).res.status = 200

\* C7: Create with empty or missing text answers 400 with validation errors
\* and stores nothing.
C7_CreateEmptyText ==
    \A r \in RequestsOf("create", posts) :
        EmptyText(r.body) =>
            LET out == handle(posts, nextId, r)
            IN  /\ out.res.status = 400
                /\ out.res.errors # <<>>
                /\ out.posts = posts
                /\ out.nextId = nextId

\* C7 witness: a collection holding a post, on which Create with empty text
\* and Create with missing text are answered 400.
C7_Witness ==
    /\ posts # {}
    /\ \A u \in Users :
           /\ createPost(posts, nextId, u, [text |-> ""]).res.status = 400
           /\ createPost(posts, nextId, u, [other |-> "x"]).res.status = 400

\* the requests that carry a malformed post id
MalformedRequests(ps) ==
    {r \in Requests(ps) : r.op # "create" /\ r.id = Malformed}

\* C8 as stated: every request with a malformed post id is answered 400
\* Post Not Found, never 500, and changes nothing.
C8_MalformedIsNotFound ==
    \A r \in MalformedRequests(posts) :
        LET out == handle(posts, nextId, r)
        IN  /\ out.res.status = 400
            /\ out.res.msg = "Post Not Found"
            /\ out.posts = posts

\* C8 amended: a request with a malformed post id is answered 400 and never
\* 500 and changes nothing; the answer is Post Not Found, except for Add
\* comment with empty or missing text, which is answered with the validation
\* errors.
C8_MalformedIs400 ==
    \A r \in MalformedRequests(posts) :
        LET out == handle(posts, nextId, r)
        IN  /\ out.res.status = 400
            /\ out.posts = posts
            /\ out.nextId = nextId
            /\ IF r.op = "addComment" /\ EmptyText(r.body)
               THEN out.res.errors # <<>> /\ out.res.msg # "Post Not Found"
               ELSE out.res.msg = "Post Not Found" /\ out.res.errors = <<>>

\* C8 witness: a post with likes and comments, on which the author's Delete
\* with a malformed id is answered 400 Post Not Found.
C8_Witness ==
    \E p \in posts :
        /\ Len(p.likes) > 0 /\ Len(p.comments) > 0
        /\ deletePost(posts, nextId, p.user.hex, Malformed).res.status = 400
        /\ deletePost(posts, nextId, p.user.hex, Malformed).res.msg = "Post Not Found"

\* C10: Delete comment never removes a comment of another user: when it
\* changes the comments, it removes one entry, written by the caller; naming
\* an existing comment of someone else, it answers 401 and changes nothing.
C10_DeleteOwnCommentOnly ==
    \A r \in RequestsOf("deleteComment", posts) :
        LET out == handle(posts, nextId, r)
        IN  /\ \A p \in posts :
                   (p \notin out.posts) =>
                       \E i \in 1..Len(p.comments) :
                           /\ p.comments[i].user.hex = r.user
                           /\ out.posts = (posts \ {p})
                                  \cup {[p EXCEPT !.comments = Without(p.comments, i)]}
            /\ \A p \in posts :
                   (/\ p._id.hex = r.id
                    /\ \E i \in 1..Len(p.comments) :
                           /\ p.comments[i]._id.hex = r.comment_id
                           /\ p.comments[i].user.hex # r.user)
                   => out.res.status = 401 /\ out.posts = posts

\* C10 witness: the post's author names a comment another user wrote on it
\* and is answered 401.
C10_Witness ==
    \E p \in posts : \E i \in 1..Len(p.comments) :
        /\ p.comments[i].user # p.user
        /\ deleteComment(posts, nextId, p.user.hex, p._id.hex,
                         p.comments[i]._id.hex).res.status = 401

----------------------------------------------------------------------------
(* SpecConc: a Like request is two steps, one per await.  Between a         *)
(* caller's findById and its save the requests of other callers run.        *)

\* POST api/posts with a valid body (a single insert)
ConcCreate ==
    \E user \in Users :
        \E out \in {createPost(posts, nextId, user, [text |-> "hello"])} :
            /\ out.nextId <= MaxConcPosts
            /\ posts' = out.posts
            /\ nextId' = out.nextId
            /\ UNCHANGED <<pending, done>>

\* PUT api/posts/like/:id up to `await post.save()`
LikeLoad ==
    \E user \in Users, id \in PostIdParams(posts) :
        /\ pending[user] = NULL
        /\ \E loaded \in {likeLoad(posts, user, id)} :
               IF loaded.returned
               THEN /\ done' = [done EXCEPT ![user] = [id |-> id, res |-> loaded.res]]
                    /\ UNCHANGED pending
               ELSE /\ pending' = [pending EXCEPT ![user] = loaded.doc]
                    /\ done' = [done EXCEPT ![user] = NULL]
        /\ UNCHANGED <<posts, nextId>>

\* PUT api/posts/like/:id from `await post.save()` on
LikeSave ==
    \E user \in Users :
        /\ pending[user] # NULL
        /\ \E out \in {likeSave(posts, nextId, pending[user])} :
               /\ posts' = out.posts
               /\ nextId' = out.nextId
               /\ done' = [done EXCEPT ![user] =
                              [id |-> toString(pending[user]._id), res |-> out.res]]
        /\ pending' = [pending EXCEPT ![user] = NULL]

NextConc == ConcCreate \/ LikeLoad \/ LikeSave

SpecConc == Init /\ [][NextConc]_vars

----------------------------------------------------------------------------
(* Properties of SpecConc. *)

\* the step in which user's Like handler saves and responds
Saves(user) == pending[user] # NULL /\ pending'[user] = NULL

\* C9: a Like handler's save answers 200 and stores the likes it loaded with
\* the caller's Like in front, whatever was saved since it loaded: a Like
\* that another caller saved in between is no longer stored.
C9_SaveOverwrites ==
    [][\A u \in Users :
           Saves(u) =>
               /\ done'[u].res.status = 200
               /\ PostOf(posts', pending[u]._id.hex).likes = pending[u].likes
               /\ \A v \in Users :
                      LikePositions(pending[u].likes, v) = {} =>
                          LikePositions(PostOf(posts', pending[u]._id.hex).likes, v) = {}]_vars

\* C9 witness: two callers' Like requests on the same post were both
\* answered 200, no request is in flight, and the post holds the Like of
\* only one of them.
C9_Witness ==
    \E p \in posts : \E u, v \in Users :
        /\ u # v
        /\ \A w \in Users : pending[w] = NULL
        /\ done[u] # NULL /\ done[u].id = p._id.hex /\ done[u].res.status = 200
        /\ done[v] # NULL /\ done[v].id = p._id.hex /\ done[v].res.status = 200
        /\ LikePositions(p.likes, u) = {}
        /\ LikePositions(p.likes, v) # {}

====
